---- MODULE Spec2Model ----
(***************************************************************************)
(* JustPros: the connection graph of app/routers/connections.py (one row   *)
(* of table `connections` per claim, table `connection_claims_log` for the *)
(* per-day limits, columns karma_points / karma_last_regen of `users`) and *)
(* the message-encoded connection model of app/routers/people.py (rows of  *)
(* table `messages` of kind connection_request / confirm).                 *)
(*                                                                         *)
(* Time is counted in days: INTERVAL '1 day' is DAY, INTERVAL '30 days'    *)
(* (2592000 s) is MONTH = 30 * DAY.                                        *)
(***************************************************************************)
EXTENDS Integers, FiniteSets, Sequences, Bags, TLC

\* ------------------------------------------------------------------ bounds
\* Connection ids handed out by the serial column: 1..MaxConnId when every
\* operation is explored, 1..MaxClaimId when only claims, withdrawals and time are.
MaxConnId == 2
MaxClaimId == 4
\* Requests arrive at the instants number 0..MaxInstant of the sequence
\* 0, DAY, MONTH, MONTH + DAY, 2 * MONTH, 2 * MONTH + DAY, ...
MaxInstant == 3

\* --------------------------------------------------------------- constants
DAY == 1
MONTH == 30 * DAY
PAIR_LIMIT == 3
GLOBAL_LIMIT == 100
KARMA_MAX == 15
TRUST_MIN == 10
TRUST_MAX == 200
TRUST_STEP == 1

Users == {1, 2}
\* A handle that resolves to no user.
NoUser == 0
\* karma_points a user can start a run with.
InitKarma == {0, KARMA_MAX}

Times == {(i \div 2) * MONTH + (i % 2) * DAY : i \in 0..MaxInstant}
ConnIds == 1..MaxConnId
ClaimIds == 1..MaxClaimId

\* Requests served at the same time
MaxRequests == 2
MaxMsgId == 3
\* get_messages requests in flight at once
MaxReaders == 2
\* facts ever created
MaxFactId == 1
\* half-months the regeneration clock is watched for
MaxHalfMonths == 4
\* posts and comments ever created, in a thread and where votes are cast
MaxPostId == 3
MaxVotedPostId == 2
\* client addresses the rate limiter sees
MaxIps == 1
\* instants of the server clock, after the first
MaxLimiterInstant == 3
Requests == 1..MaxRequests

Min(a, b) == IF a < b THEN a ELSE b
Max(a, b) == IF a < b THEN b ELSE a

\* The users of the vote model: a voter needs two parties to vouch for
VoteUsers == {1, 2, 3}

\* Trustworthiness at the start: the lower bound, an interior value and the
\* upper bound, each of which repeated votes can produce
InitTrust ==
  [u \in VoteUsers |->
     IF u = 1 THEN TRUST_MIN
     ELSE IF u = 2 THEN (TRUST_MIN + TRUST_MAX) \div 2 ELSE TRUST_MAX]

VARIABLES
  now,             \* NOW(), in days
  connections,     \* table connections: set of rows
  nextId,          \* the next value of connections.id (serial)
  claimsLog,       \* table connection_claims_log: a bag of rows (from, to, created_at)
  karma,           \* users.karma_points
  karmaLastRegen,  \* users.karma_last_regen
  reqs,            \* create_connection requests in flight: where each one stands
  messages,        \* table messages: the connection_request and confirm rows
  nextMsgId,       \* the next value of messages.id (serial)
  votes,           \* table connection_votes: one row per (connection_id, voter_id)
  trust,           \* users.trustworthiness, in hundredths
  reads,           \* table conversation_reads: rows (user_id, last_read_message_id)
  readers,         \* get_messages requests in flight: where each one stands
  facts,           \* table facts: set of rows
  nextFactId,      \* the next value of facts.id (serial)
  pages,           \* table pages: rows (id, owner_id)
  pageFollows,     \* table page_follows: rows (page_id, user_id)
  factVotes,       \* table fact_votes: one row per (fact_id, user_id)
  pageEditors,     \* table page_editors: rows (page_id, user_id, accepted)
  posts,           \* table posts: set of rows
  nextPostId,      \* the next value of posts.id (serial)
  postVotes,       \* table post_votes: one row per (post_id, user_id)
  clock,           \* time.time() of the server process, in minutes
  requestLog,      \* ratelimit._requests: per key, the timestamps kept
  blockedIps       \* ratelimit._blocked_ips: per ip, (block_until, count) or none

vars == <<now, connections, nextId, claimsLog, karma, karmaLastRegen, reqs,
          messages, nextMsgId, votes, trust, reads, readers, facts, nextFactId,
          factVotes, pages, pageEditors, pageFollows, posts, postVotes, nextPostId, clock, requestLog, blockedIps>>

\* What no handler run as a whole touches
inFlight == <<reqs>>

\* What the handlers of routers/connections.py do not touch
messageTable == <<messages, nextMsgId>>

\* What only the vote handlers touch
voteTables == <<votes, trust>>

\* What only get_messages touches
readTables == <<reads, readers>>

\* What only the handlers of routers/page_api.py touch
pageTables == <<pages, pageEditors, pageFollows>>

\* What only the handlers of routers/facts.py and routers/page_api.py touch
factTables == <<facts, nextFactId, factVotes, pageTables>>

\* What only the handlers of routers/posts.py touch
postTables == <<posts, nextPostId, postVotes>>

\* What only the rate limiter touches
limiterState == <<clock, requestLog, blockedIps>>

\* What the connection handlers of either store do not touch
otherRouters == <<readTables, factTables, postTables, limiterState>>

\* What the handlers of routers/people.py do not touch
claimTables == <<connections, nextId, claimsLog, karma, karmaLastRegen, voteTables>>

\* A request slot: pc is the statement create_connection runs next for caller
\* `user` and target `to`; an idle slot serves no request.
Req(pc, u, t) == [pc |-> pc, user |-> u, to |-> t]
Idle == Req("idle", NoUser, NoUser)

\* ------------------------------------------------- connection_claims_log
LogRow(f, t, at) == [from_user_id |-> f, to_user_id |-> t, created_at |-> at]

\* created_at > NOW() - INTERVAL '1 day'
InWindow(at) == at > now - DAY

RECURSIVE SumCopies(_, _)
SumCopies(B, S) ==
  IF S = {} THEN 0
  ELSE LET r == CHOOSE x \in S : TRUE IN CopiesIn(r, B) + SumCopies(B, S \ {r})

\* SELECT COUNT(*) ... WHERE from_user_id = f AND to_user_id = t AND created_at in window
PairCount(f, t) ==
  SumCopies(claimsLog, {r \in BagToSet(claimsLog) :
      r.from_user_id = f /\ r.to_user_id = t /\ InWindow(r.created_at)})

\* SELECT COUNT(*) ... WHERE from_user_id = f AND created_at in window
GlobalCount(f) ==
  SumCopies(claimsLog, {r \in BagToSet(claimsLog) :
      r.from_user_id = f /\ InWindow(r.created_at)})

\* DELETE FROM connection_claims_log WHERE id = (SELECT id ... WHERE from_user_id = f
\* AND to_user_id = t ORDER BY created_at DESC LIMIT 1): the newest row of the pair,
\* whatever its age; nothing when the pair has no row.
LatestLogRows(f, t) ==
  {r \in BagToSet(claimsLog) :
      /\ r.from_user_id = f /\ r.to_user_id = t
      /\ \A q \in BagToSet(claimsLog) :
           (q.from_user_id = f /\ q.to_user_id = t) => q.created_at <= r.created_at}

\* a withdrawal that clears the pair's whole log
RemoveAllLogRows(f, t) ==
  [r \in {q \in BagToSet(claimsLog) : ~(q.from_user_id = f /\ q.to_user_id = t)}
     |-> claimsLog[r]]

RemoveOneLogRow(f, t) ==
  IF LatestLogRows(f, t) = {} THEN claimsLog
  ELSE claimsLog (-) SetToBag({CHOOSE r \in LatestLogRows(f, t) : TRUE})

\* INSERT INTO connection_claims_log (from_user_id, to_user_id); created_at defaults to NOW()
LogClaimAttempt(f, t) == claimsLog (+) SetToBag({LogRow(f, t, now)})

\* the per-pair check letting a fourth claim through
PairLimitedAbove(f, t) == PairCount(f, t) > PAIR_LIMIT

\* if pair_count["count"] >= 3
PairLimited(f, t) == PairCount(f, t) >= PAIR_LIMIT

\* if global_count["count"] >= 100
GlobalLimited(f) == GlobalCount(f) >= GLOBAL_LIMIT

\* --------------------------------------------------------------- karma
\* WHERE karma_last_regen < NOW() - INTERVAL '30 days'
RegenApplies(u) == karmaLastRegen[u] < now - MONTH

\* LEAST(15, karma_points + FLOOR(EXTRACT(EPOCH FROM (NOW() - karma_last_regen)) / 2592000))
KarmaAfterRegen(u) ==
  IF RegenApplies(u)
  THEN Min(KARMA_MAX, karma[u] + ((now - karmaLastRegen[u]) \div MONTH))
  ELSE karma[u]

\* the karma check refusing only negative karma
KarmaForbiddenNegative(k) == k < 0

\* if user["karma_points"] <= 0: 403
KarmaForbidden(k) == k <= 0

\* ---------------------------------------------------------- connections
\* A row of table connections. The INSERT of create_connection names only
\* from_user_id, to_user_id, subject and body: id is the serial, status starts
\* as 'pending' and created_at as NOW().
ConnRow(id, f, t, st, at) ==
  [id |-> id, from_user_id |-> f, to_user_id |-> t, status |-> st, created_at |-> at]

\* SELECT ... FROM connections WHERE id = :id
ConnById(id) == {c \in connections : c.id = id}

\* The Connection rows of the unordered pair {a, b}
PairRows(a, b) ==
  {c \in connections : {c.from_user_id, c.to_user_id} = {a, b}}

\* create_connection as a one-row-per-pair upsert: an existing row of the pair is
\* moved to pending with the new requester, a new row is inserted only for a new pair.
InsertConnectionUpsert(f, t) ==
  IF PairRows(f, t) = {} THEN connections \cup {ConnRow(nextId, f, t, "pending", now)}
  ELSE {IF c \in PairRows(f, t)
        THEN [c EXCEPT !.from_user_id = f, !.to_user_id = t, !.status = "pending"]
        ELSE c : c \in connections}

\* create_connection resolving a mutual claim: when the target already has a
\* pending claim to the caller, that claim is confirmed and nothing is inserted.
InsertConnectionMutual(f, t) ==
  IF \E c \in connections :
       c.from_user_id = t /\ c.to_user_id = f /\ c.status = "pending"
  THEN {IF c.from_user_id = t /\ c.to_user_id = f /\ c.status = "pending"
        THEN [c EXCEPT !.status = "confirmed"] ELSE c : c \in connections}
  ELSE connections \cup {ConnRow(nextId, f, t, "pending", now)}

\* INSERT INTO connections (from_user_id, to_user_id, subject, body) RETURNING id
InsertConnection(f, t) == connections \cup {ConnRow(nextId, f, t, "pending", now)}

\* UPDATE connections SET status = st WHERE id = :id
SetStatus(id, st) ==
  {IF c.id = id THEN [c EXCEPT !.status = st] ELSE c : c \in connections}

\* HTTP status codes of the handlers' responses
OK == 200
BAD_REQUEST == 400
FORBIDDEN == 403
NOT_FOUND == 404
TOO_MANY_REQUESTS == 429

\* create_connection refusing a claim to a user the caller is already confirmed
\* with or already has a pending claim to
CreateStatusNoDuplicate(u, t) ==
  IF KarmaForbidden(KarmaAfterRegen(u)) THEN FORBIDDEN
  ELSE IF t = NoUser THEN NOT_FOUND
  ELSE IF u = t THEN BAD_REQUEST
  ELSE IF PairLimited(u, t) \/ GlobalLimited(u) THEN TOO_MANY_REQUESTS
  ELSE IF \E c \in connections :
            \/ c.status = "confirmed" /\ {c.from_user_id, c.to_user_id} = {u, t}
            \/ c.status = "pending" /\ c.from_user_id = u /\ c.to_user_id = t
       THEN BAD_REQUEST
  ELSE OK

\* The status create_connection answers with, in the order of its checks:
\* _check_karma (after the regeneration UPDATE), the target lookup, the self
\* check, _check_rate_limits.
CreateStatus(u, t) ==
  IF KarmaForbidden(KarmaAfterRegen(u)) THEN FORBIDDEN
  ELSE IF t = NoUser THEN NOT_FOUND
  ELSE IF u = t THEN BAD_REQUEST
  ELSE IF PairLimited(u, t) \/ GlobalLimited(u) THEN TOO_MANY_REQUESTS
  ELSE OK

\* create_connection: _check_karma, the target lookup, the self check,
\* _check_rate_limits, _log_claim_attempt and the INSERT, run without interruption.
\* maxId caps the serial id.
CreateConnection(u, t, maxId) ==
  /\ karma' = [karma EXCEPT ![u] = KarmaAfterRegen(u)]
  /\ karmaLastRegen' = [karmaLastRegen EXCEPT ![u] = IF RegenApplies(u) THEN now ELSE @]
  /\ UNCHANGED <<otherRouters, now, inFlight, messageTable, voteTables>>
  /\ IF CreateStatus(u, t) = OK
     THEN /\ nextId <= maxId
          /\ claimsLog' = LogClaimAttempt(u, t)
          /\ connections' = InsertConnection(u, t)
          /\ nextId' = nextId + 1
     ELSE UNCHANGED <<connections, nextId, claimsLog>>

\* confirm_connection refusing every row that is not pending
ConfirmRejectsNonPending(st) == st # "pending"

\* if conn["status"] == "confirmed": 400
ConfirmRejectsStatus(st) == st = "confirmed"

\* confirm_connection without the target check
ConfirmStatusAnyParty(u, id) ==
  IF ConnById(id) = {} THEN NOT_FOUND
  ELSE LET conn == CHOOSE c \in ConnById(id) : TRUE IN
       IF ConfirmRejectsStatus(conn.status) THEN BAD_REQUEST ELSE OK

\* The status confirm_connection answers with
ConfirmStatus(u, id) ==
  IF ConnById(id) = {} THEN NOT_FOUND
  ELSE LET conn == CHOOSE c \in ConnById(id) : TRUE IN
       IF conn.to_user_id # u THEN FORBIDDEN
       ELSE IF ConfirmRejectsStatus(conn.status) THEN BAD_REQUEST
       ELSE OK

\* confirm_connection
ConfirmConnection(u, id) ==
  /\ UNCHANGED <<otherRouters, now, nextId, claimsLog, karma, karmaLastRegen, inFlight, messageTable, voteTables>>
  /\ IF ConfirmStatus(u, id) = OK
     THEN connections' = SetStatus(id, "confirmed")
     ELSE UNCHANGED connections

\* The status ignore_connection answers with
IgnoreStatus(u, id) ==
  IF ConnById(id) = {} THEN NOT_FOUND
  ELSE LET conn == CHOOSE c \in ConnById(id) : TRUE IN
       IF conn.to_user_id # u THEN FORBIDDEN
       ELSE IF conn.status = "ignored" THEN BAD_REQUEST
       ELSE OK

\* ignore_connection
IgnoreConnection(u, id) ==
  /\ UNCHANGED <<otherRouters, now, nextId, claimsLog, karma, karmaLastRegen, inFlight, messageTable, voteTables>>
  /\ IF IgnoreStatus(u, id) = OK
     THEN connections' = SetStatus(id, "ignored")
     ELSE UNCHANGED connections

\* The status delete_connection answers with
DeleteStatus(u, id) ==
  IF ConnById(id) = {} THEN NOT_FOUND
  ELSE LET conn == CHOOSE c \in ConnById(id) : TRUE IN
       IF conn.from_user_id # u THEN FORBIDDEN ELSE OK

\* delete_connection: the row, then one log row of (caller, row's target)
DeleteConnection(u, id) ==
  /\ UNCHANGED <<otherRouters, now, nextId, karma, karmaLastRegen, inFlight, messageTable, voteTables>>
  /\ IF DeleteStatus(u, id) = OK
     THEN LET conn == CHOOSE c \in ConnById(id) : TRUE IN
          /\ connections' = connections \ ConnById(id)
          /\ claimsLog' = RemoveOneLogRow(u, conn.to_user_id)
     ELSE UNCHANGED <<connections, claimsLog>>

\* created_at < NOW() - INTERVAL '30 days'
Stale(c) == c.created_at < now - MONTH

\* list_pending_connections: first auto-ignores the caller's stale pending claims
ListPendingConnections(u) ==
  /\ connections' =
       {IF c.status = "pending" /\ c.to_user_id = u /\ Stale(c)
        THEN [c EXCEPT !.status = "ignored"] ELSE c : c \in connections}
  /\ UNCHANGED <<otherRouters, now, nextId, claimsLog, karma, karmaLastRegen, inFlight, messageTable, voteTables>>

\* Time passes between requests.
Tick ==
  /\ \E t \in Times : t > now /\ now' = t
  /\ UNCHANGED <<otherRouters, connections, nextId, claimsLog, karma, karmaLastRegen, inFlight, messageTable, voteTables>>

\* A get_messages request slot: pc is the statement it runs next for caller
\* `user` and partner `to`, id the newest message id of the page it fetched.
Readers == 1..MaxReaders

Reader(pc, u, t, id) == [pc |-> pc, user |-> u, to |-> t, id |-> id]

IdleReader == Reader("idle", NoUser, NoUser, 0)

ClientIps == 1..MaxIps

\* Two of the rate-limited endpoints (routers/auth.py)
Endpoints == {"forgot_password", "signup"}

\* key = f"{func.__name__}:{ip}"
LimiterKeys == Endpoints \X ClientIps

\* _blocked_ips has no entry for an ip
NotBlocked == [until |-> 0, count |-> 0]

\* The other routers' tables empty and the rate limiter's stores as at import
InitOther ==
  /\ reads = {}
  /\ readers = [r \in Readers |-> IdleReader]
  /\ facts = {}
  /\ nextFactId = 1
  /\ factVotes = {}
  /\ pages = {}
  /\ pageEditors = {}
  /\ pageFollows = {}
  /\ posts = {}
  /\ nextPostId = 1
  /\ postVotes = {}
  /\ clock = 0
  /\ requestLog = [k \in LimiterKeys |-> <<>>]
  /\ blockedIps = [ip \in ClientIps |-> NotBlocked]

Init ==
  /\ now = 0
  /\ connections = {}
  /\ nextId = 1
  /\ claimsLog = EmptyBag
  /\ karma \in [Users -> InitKarma]
  /\ karmaLastRegen = [u \in Users |-> 0]
  /\ reqs = [r \in Requests |-> Idle]
  /\ messages = {}
  /\ nextMsgId = 1
  /\ votes = {}
  /\ trust = [u \in Users |-> InitTrust[u]]
  /\ InitOther

Next ==
  \/ \E u \in Users, t \in Users \cup {NoUser} : CreateConnection(u, t, MaxConnId)
  \/ \E u \in Users, id \in ConnIds : ConfirmConnection(u, id)
  \/ \E u \in Users, id \in ConnIds : IgnoreConnection(u, id)
  \/ \E u \in Users, id \in ConnIds : DeleteConnection(u, id)
  \/ \E u \in Users : ListPendingConnections(u)
  \/ Tick

Spec == Init /\ [][Next]_vars

\* Claims, withdrawals and the passage of time only (every row stays pending).
NextClaims ==
  \/ \E u \in Users, t \in Users \cup {NoUser} : CreateConnection(u, t, MaxClaimId)
  \/ \E u \in Users, id \in ClaimIds : DeleteConnection(u, id)
  \/ Tick

SpecClaims == Init /\ [][NextClaims]_vars

\* ------------------------------------------- create_connection, statement by
\* statement. The handler is a coroutine and every database.fetch_one / execute
\* is awaited on the shared `databases` pool outside any transaction, so the
\* statements of two requests interleave.
\* The handler returns or raises HTTPException(code): the request is over.
Answer(r, code) == reqs' = [reqs EXCEPT ![r] = Idle]
Goto(r, pc) == reqs' = [reqs EXCEPT ![r].pc = pc]
InFlightCount == Cardinality({r \in Requests : reqs[r].pc # "idle"})

\* The request arrives; _check_karma's first SELECT finds the caller.
ReqBegin(r, u, t) ==
  /\ reqs[r].pc = "idle"
  /\ nextId + InFlightCount <= MaxClaimId
  /\ reqs' = [reqs EXCEPT ![r] = Req("regen", u, t)]
  /\ UNCHANGED <<otherRouters, messageTable, voteTables, now, connections, nextId, claimsLog, karma, karmaLastRegen>>

\* _check_karma: the regeneration UPDATE
ReqRegen(r) ==
  /\ reqs[r].pc = "regen"
  /\ karma' = [karma EXCEPT ![reqs[r].user] = KarmaAfterRegen(reqs[r].user)]
  /\ karmaLastRegen' = [karmaLastRegen EXCEPT
                          ![reqs[r].user] = IF RegenApplies(reqs[r].user) THEN now ELSE @]
  /\ Goto(r, "karma")
  /\ UNCHANGED <<otherRouters, messageTable, voteTables, now, connections, nextId, claimsLog>>

\* _check_karma: the re-fetch and the karma check
ReqKarma(r) ==
  /\ reqs[r].pc = "karma"
  /\ IF KarmaForbidden(karma[reqs[r].user]) THEN Answer(r, FORBIDDEN) ELSE Goto(r, "target")
  /\ UNCHANGED <<otherRouters, messageTable, voteTables, now, connections, nextId, claimsLog, karma, karmaLastRegen>>

\* the target lookup and the self check
ReqTarget(r) ==
  /\ reqs[r].pc = "target"
  /\ IF reqs[r].to = NoUser THEN Answer(r, NOT_FOUND)
     ELSE IF reqs[r].to = reqs[r].user THEN Answer(r, BAD_REQUEST)
     ELSE Goto(r, "pair")
  /\ UNCHANGED <<otherRouters, messageTable, voteTables, now, connections, nextId, claimsLog, karma, karmaLastRegen>>

\* _check_rate_limits: the per-pair count
ReqPairCount(r) ==
  /\ reqs[r].pc = "pair"
  /\ IF PairLimited(reqs[r].user, reqs[r].to) THEN Answer(r, TOO_MANY_REQUESTS)
     ELSE Goto(r, "global")
  /\ UNCHANGED <<otherRouters, messageTable, voteTables, now, connections, nextId, claimsLog, karma, karmaLastRegen>>

\* _check_rate_limits: the global count
ReqGlobalCount(r) ==
  /\ reqs[r].pc = "global"
  /\ IF GlobalLimited(reqs[r].user) THEN Answer(r, TOO_MANY_REQUESTS) ELSE Goto(r, "log")
  /\ UNCHANGED <<otherRouters, messageTable, voteTables, now, connections, nextId, claimsLog, karma, karmaLastRegen>>

\* _log_claim_attempt
ReqLog(r) ==
  /\ reqs[r].pc = "log"
  /\ claimsLog' = LogClaimAttempt(reqs[r].user, reqs[r].to)
  /\ Goto(r, "insert")
  /\ UNCHANGED <<otherRouters, messageTable, voteTables, now, connections, nextId, karma, karmaLastRegen>>

\* the INSERT INTO connections and the answer
ReqInsert(r) ==
  /\ reqs[r].pc = "insert"
  /\ connections' = InsertConnection(reqs[r].user, reqs[r].to)
  /\ nextId' = nextId + 1
  /\ Answer(r, OK)
  /\ UNCHANGED <<otherRouters, messageTable, voteTables, now, claimsLog, karma, karmaLastRegen>>

NextConc ==
  \/ \E r \in Requests, u \in Users, t \in Users \cup {NoUser} : ReqBegin(r, u, t)
  \/ \E r \in Requests : ReqRegen(r)
  \/ \E r \in Requests : ReqKarma(r)
  \/ \E r \in Requests : ReqTarget(r)
  \/ \E r \in Requests : ReqPairCount(r)
  \/ \E r \in Requests : ReqGlobalCount(r)
  \/ \E r \in Requests : ReqLog(r)
  \/ \E r \in Requests : ReqInsert(r)
  \/ Tick

SpecConc == Init /\ [][NextConc]_vars

\* ------------------------------------------------------------------ claims

\* C1 (as stated): at most one Connection row exists for every unordered pair
\* of users, whatever create_claim calls were made.
C1_OneRowPerPair ==
  \A a \in Users, b \in Users : a # b => Cardinality(PairRows(a, b)) <= 1

\* C1 (amended): every successful create_claim from A to B adds exactly one new
\* pending row from A to B under an id no row carries yet, and changes no
\* existing row: the pair holds one row per successful call, ids are unique.
C1_OneRowPerClaim ==
  /\ [](\A c \in connections, d \in connections : c.id = d.id => c = d)
  /\ [][\A u \in Users, t \in Users :
          (CreateConnection(u, t, MaxConnId) /\ CreateStatus(u, t) = OK) =>
            \E c \in connections' :
              /\ c \notin connections
              /\ connections' = connections \cup {c}
              /\ c.from_user_id = u /\ c.to_user_id = t /\ c.status = "pending"
              /\ \A d \in connections : d.id # c.id
              /\ Cardinality(PairRows(u, t)') = Cardinality(PairRows(u, t)) + 1]_vars

\* C1 witness: two rows of one pair, one in each direction
C1_TwoRowsOnePair ==
  \E c \in connections, d \in connections :
    c.id # d.id /\ c.from_user_id = d.to_user_id /\ c.to_user_id = d.from_user_id

\* C2: for a pending row requested by A to B, confirm by A answers 403 and
\* leaves the row pending; confirm by B answers 200 and moves the row to confirmed.
C2_ConfirmByTargetOnly ==
  /\ [](\A c \in connections : c.status = "pending" =>
          /\ ConfirmStatus(c.from_user_id, c.id) = FORBIDDEN
          /\ ConfirmStatus(c.to_user_id, c.id) = OK)
  /\ [][\A c \in connections : c.status = "pending" =>
          /\ ConfirmConnection(c.from_user_id, c.id) => connections' = connections
          /\ ConfirmConnection(c.to_user_id, c.id) =>
               connections' = (connections \ {c}) \cup {[c EXCEPT !.status = "confirmed"]}]_vars

\* C2 witness: a claim confirmed by its target while another claim is pending
C2_ConfirmedAndPending ==
  \E c \in connections, d \in connections :
    c.status = "confirmed" /\ d.status = "pending"

\* C3 (as stated): the target's confirm of a row that is ignored or confirmed
\* fails and leaves the status unchanged.
C3_ConfirmOnlyPending ==
  /\ [](\A c \in connections : c.status \in {"ignored", "confirmed"} =>
          ConfirmStatus(c.to_user_id, c.id) # OK)
  /\ [][\A c \in connections : c.status \in {"ignored", "confirmed"} =>
          (ConfirmConnection(c.to_user_id, c.id) => connections' = connections)]_vars

\* C3 (amended): the target's confirm succeeds on a pending and on an ignored row
\* (moving it to confirmed); on a confirmed row it answers 400 and leaves the
\* row unchanged.
C3_ConfirmPendingOrIgnored ==
  /\ [](\A c \in connections :
          /\ c.status \in {"pending", "ignored"} => ConfirmStatus(c.to_user_id, c.id) = OK
          /\ c.status = "confirmed" => ConfirmStatus(c.to_user_id, c.id) = BAD_REQUEST)
  /\ [][\A c \in connections : ConfirmConnection(c.to_user_id, c.id) =>
          IF c.status = "confirmed" THEN connections' = connections
          ELSE connections' = (connections \ {c}) \cup {[c EXCEPT !.status = "confirmed"]}]_vars

\* C3 witness: an ignored row and a confirmed row
C3_IgnoredAndConfirmed ==
  \E c \in connections, d \in connections :
    c.status = "ignored" /\ d.status = "confirmed"

EffectiveKarma(u) ==
  Min(KARMA_MAX, karma[u] + ((now - karmaLastRegen[u]) \div MONTH))

PairCountAt(f, t, t0) ==
  SumCopies(claimsLog, {r \in BagToSet(claimsLog) :
      r.from_user_id = f /\ r.to_user_id = t
        /\ r.created_at > t0 - DAY /\ r.created_at <= t0})
GlobalCountAt(f, t0) ==
  SumCopies(claimsLog, {r \in BagToSet(claimsLog) :
      r.from_user_id = f /\ r.created_at > t0 - DAY /\ r.created_at <= t0})

\* C6 (as stated): whatever the interleaving of concurrent create_claim requests,
\* the claim log holds at most 3 rows of (A, B) and at most 100 rows of A with
\* timestamps inside one 24h window.
C6_LogWithinLimits ==
  \A a \in Users, b \in Users, t0 \in Times :
    /\ PairCountAt(a, b, t0) <= PAIR_LIMIT
    /\ GlobalCountAt(a, t0) <= GLOBAL_LIMIT

\* B has a pending claim to A
PendingFrom(b, a) ==
  \E c \in connections : c.from_user_id = b /\ c.to_user_id = a /\ c.status = "pending"

\* The pair {a, b} has a confirmed claim
Confirmed(a, b) == \E c \in PairRows(a, b) : c.status = "confirmed"

\* C8 (as stated): when B has a pending claim to A, an accepted create_claim from
\* A to B leaves the pair confirmed and with no pending claim.
C8_MutualClaimConfirms ==
  [][\A a \in Users, b \in Users :
       (PendingFrom(b, a) /\ CreateStatus(a, b) = OK /\ CreateConnection(a, b, MaxConnId)) =>
         /\ Confirmed(a, b)'
         /\ \A c \in PairRows(a, b)' : c.status # "pending"]_vars

\* C8 (amended): when B has a pending claim to A, an accepted create_claim from A
\* to B adds a separate pending claim from A to B and changes no existing row:
\* B's claim stays pending and the operation confirms nothing.
C8_MutualClaimsStayPending ==
  [][\A a \in Users, b \in Users :
       (PendingFrom(b, a) /\ CreateStatus(a, b) = OK /\ CreateConnection(a, b, MaxConnId)) =>
         /\ connections \subseteq connections'
         /\ PendingFrom(b, a)' /\ PendingFrom(a, b)'
         /\ \A c \in connections' \ connections :
              c.from_user_id = a /\ c.to_user_id = b /\ c.status = "pending"
         /\ Confirmed(a, b)' <=> Confirmed(a, b)]_vars

\* C8 witness: pending claims in both directions, none confirmed
C8_BothPending ==
  \E a \in Users, b \in Users :
    PendingFrom(a, b) /\ PendingFrom(b, a) /\ ~Confirmed(a, b)

\* A claim from a to b meets an existing relation: the pair is confirmed, or a
\* already has a pending claim to b
AlreadyRelated(a, b) == Confirmed(a, b) \/ PendingFrom(a, b)

MsgIds == 1..MaxMsgId

MsgRow(id, kind, s, r) ==
  [id |-> id, kind |-> kind, sender_id |-> s, receiver_id |-> r,
   created_at |-> now, sender_deleted |-> FALSE, receiver_deleted |-> FALSE]

\* SELECT 1 FROM messages WHERE kind = 'confirm' AND (u1 -> u2 OR u2 -> u1)
IsConnected(u1, u2) ==
  \E m \in messages :
    /\ m.kind = "confirm"
    /\ \/ m.sender_id = u1 /\ m.receiver_id = u2
       \/ m.sender_id = u2 /\ m.receiver_id = u1

\* A confirm from `by` to `to` created after row m
ConfirmedAfter(m, by, to) ==
  \E c \in messages :
    c.kind = "confirm" /\ c.sender_id = by /\ c.receiver_id = to /\ c.id > m.id

\* The newest connection_request from f to t the receiver has not deleted, and
\* no confirm from t to f after it
HasPendingRequestFrom(f, t) ==
  LET rs == {m \in messages : /\ m.kind = "connection_request"
                               /\ m.sender_id = f /\ m.receiver_id = t
                               /\ ~m.receiver_deleted}
  IN  /\ rs # {}
      /\ LET request == CHOOSE m \in rs : \A o \in rs : o.id <= m.id
         IN  ~ConfirmedAfter(request, t, f)

\* GET /pending-sent: the users u has an unconfirmed request to, not deleted by u
ListPendingSent(u) ==
  {m.receiver_id : m \in {x \in messages :
      /\ x.kind = "connection_request" /\ x.sender_id = u /\ ~x.sender_deleted
      /\ ~ConfirmedAfter(x, x.receiver_id, u)}}

\* GET /pending-received: the users with an unconfirmed request to u, not
\* deleted by u
ListPendingReceived(u) ==
  {m.sender_id : m \in {x \in messages :
      /\ x.kind = "connection_request" /\ x.receiver_id = u /\ ~x.receiver_deleted
      /\ ~ConfirmedAfter(x, u, x.sender_id)}}

InsertMessage(kind, s, r) ==
  /\ messages' = messages \cup {MsgRow(nextMsgId, kind, s, r)}
  /\ nextMsgId' = nextMsgId + 1

SendStatus(u, t) ==
  IF t = NoUser THEN NOT_FOUND
  ELSE IF t = u THEN BAD_REQUEST
  ELSE IF IsConnected(u, t) THEN BAD_REQUEST
  ELSE IF HasPendingRequestFrom(u, t) THEN BAD_REQUEST
  ELSE OK

\* POST /{handle}/connect
SendConnectionRequest(u, t) ==
  /\ nextMsgId <= MaxMsgId
  /\ IF SendStatus(u, t) = OK
     THEN InsertMessage("connection_request", u, t)
     ELSE UNCHANGED messageTable
  /\ UNCHANGED <<otherRouters, now, claimTables, inFlight>>

RespondStatus(u, t) ==
  IF t = NoUser THEN NOT_FOUND
  ELSE IF ~HasPendingRequestFrom(t, u) THEN BAD_REQUEST
  ELSE OK

\* POST /{handle}/confirm
ConfirmRequest(u, t) ==
  /\ nextMsgId <= MaxMsgId
  /\ IF RespondStatus(u, t) = OK
     THEN InsertMessage("confirm", u, t)
     ELSE UNCHANGED messageTable
  /\ UNCHANGED <<otherRouters, now, claimTables, inFlight>>

\* POST /{handle}/ignore
IgnoreConnectionRequest(u, t) ==
  /\ IF RespondStatus(u, t) = OK
     THEN messages' =
            {IF /\ m.kind = "connection_request"
                /\ m.sender_id = t /\ m.receiver_id = u /\ ~m.receiver_deleted
             THEN [m EXCEPT !.receiver_deleted = TRUE] ELSE m : m \in messages}
     ELSE UNCHANGED messages
  /\ UNCHANGED <<otherRouters, nextMsgId, now, claimTables, inFlight>>

DisconnectStatus(u, t) ==
  IF t = NoUser THEN NOT_FOUND
  ELSE IF ~IsConnected(u, t) THEN BAD_REQUEST
  ELSE OK

\* DELETE /{handle}
Disconnect(u, t) ==
  /\ IF DisconnectStatus(u, t) = OK
     THEN messages' =
            {m \in messages :
               ~(/\ m.kind = "confirm"
                 /\ \/ m.sender_id = u /\ m.receiver_id = t
                    \/ m.sender_id = t /\ m.receiver_id = u)}
     ELSE UNCHANGED messages
  /\ UNCHANGED <<otherRouters, nextMsgId, now, claimTables, inFlight>>

WithdrawStatus(u, t) ==
  IF t = NoUser THEN NOT_FOUND
  ELSE IF ~HasPendingRequestFrom(u, t) THEN BAD_REQUEST
  ELSE OK

\* DELETE /request/{handle}
WithdrawConnectionRequest(u, t) ==
  /\ IF WithdrawStatus(u, t) = OK
     THEN messages' =
            {IF /\ m.kind = "connection_request"
                /\ m.sender_id = u /\ m.receiver_id = t /\ ~m.sender_deleted
             THEN [m EXCEPT !.sender_deleted = TRUE] ELSE m : m \in messages}
     ELSE UNCHANGED messages
  /\ UNCHANGED <<otherRouters, nextMsgId, now, claimTables, inFlight>>

\* A request row the sweep (and the listings) count as pending: not deleted by
\* its receiver and with no confirm from the receiver after it
PendingRow(m) ==
  /\ m.kind = "connection_request" /\ ~m.receiver_deleted
  /\ ~ConfirmedAfter(m, m.receiver_id, m.sender_id)

\* The sweep's UPDATE reaching only the requests older than 60 days
SweptMessagesLate ==
  {IF PendingRow(m) /\ m.created_at < now - 2 * MONTH
   THEN [m EXCEPT !.receiver_deleted = TRUE] ELSE m : m \in messages}

\* The sweep's UPDATE without its NOT EXISTS (confirm) clause
SweptMessagesConfirmed ==
  {IF /\ m.kind = "connection_request" /\ ~m.receiver_deleted
      /\ m.created_at < now - MONTH
   THEN [m EXCEPT !.receiver_deleted = TRUE] ELSE m : m \in messages}

\* The messages table after the sweep's UPDATE
SweptMessages ==
  {IF PendingRow(m) /\ m.created_at < now - MONTH
   THEN [m EXCEPT !.receiver_deleted = TRUE] ELSE m : m \in messages}

\* The hourly sweep: requests older than 30 days and not confirmed since are
\* deleted for their receiver. A run that raises is caught and changes nothing
\* (a stuttering step); the loop then sleeps and runs again.
AutoIgnoreOldConnectionRequests ==
  /\ messages' = SweptMessages
  /\ UNCHANGED <<otherRouters, nextMsgId, now, claimTables, inFlight>>

NextPeople ==
  \/ \E u \in Users, t \in Users \cup {NoUser} : SendConnectionRequest(u, t)
  \/ \E u \in Users, t \in Users \cup {NoUser} : ConfirmRequest(u, t)
  \/ \E u \in Users, t \in Users \cup {NoUser} : IgnoreConnectionRequest(u, t)
  \/ \E u \in Users, t \in Users \cup {NoUser} : Disconnect(u, t)
  \/ \E u \in Users, t \in Users \cup {NoUser} : WithdrawConnectionRequest(u, t)
  \/ AutoIgnoreOldConnectionRequests
  \/ Tick

SpecPeople == Init /\ [][NextPeople]_vars

\* C10: only the requester of a pending request can withdraw it, and after a
\* withdraw the request is gone: the target cannot confirm it, neither
\* listing shows the pair as pending, and the requester, unless connected to the
\* target, may send a new request.
C10_WithdrawRemovesRequest ==
  /\ [](\A a \in Users, b \in Users :
          WithdrawStatus(a, b) = OK => HasPendingRequestFrom(a, b))
  /\ [][\A a \in Users, b \in Users :
          (WithdrawStatus(a, b) = OK /\ WithdrawConnectionRequest(a, b)) =>
            /\ RespondStatus(b, a)' # OK
            /\ b \notin ListPendingSent(a)'
            /\ a \notin ListPendingReceived(b)'
            /\ ~IsConnected(a, b) => SendStatus(a, b)' = OK]_vars

\* C11: either party of a connected pair can disconnect, and afterwards the pair
\* is in the no-connection state: not connected and with no pending request in
\* either direction.
C11_DisconnectLeavesNoConnection ==
  /\ [](\A a \in Users, b \in Users :
          (a # b /\ IsConnected(a, b)) => DisconnectStatus(a, b) = OK)
  /\ [][\A a \in Users, b \in Users :
          (DisconnectStatus(a, b) = OK /\ Disconnect(a, b)) =>
            /\ ~IsConnected(a, b)'
            /\ ~HasPendingRequestFrom(a, b)'
            /\ ~HasPendingRequestFrom(b, a)']_vars

\* ---------------------------------------------------------------------------
\* The two stores side by side: the claims of routers/connections.py and the
\* requests of routers/people.py, with the background sweep of main.py.
\* ---------------------------------------------------------------------------

MaxStoreConnId == 1
StoreConnIds == 1..MaxStoreConnId

NextStores ==
  \/ \E u \in Users, t \in Users : CreateConnection(u, t, MaxStoreConnId)
  \/ \E u \in Users, id \in StoreConnIds : ConfirmConnection(u, id)
  \/ \E u \in Users : ListPendingConnections(u)
  \/ \E u \in Users, t \in Users : SendConnectionRequest(u, t)
  \/ \E u \in Users, t \in Users : ConfirmRequest(u, t)
  \/ AutoIgnoreOldConnectionRequests
  \/ Tick

SpecStores == Init /\ [][NextStores]_vars

\* lifespan starts the sweep as a task that loops until shutdown: a run whose
\* UPDATE has work to do is eventually made and succeeds.
SpecSweep == SpecStores /\ WF_vars(AutoIgnoreOldConnectionRequests)

\* The request row `id` is pending and more than 30 days old
StaleRequest(id) ==
  \E m \in messages : m.id = id /\ PendingRow(m) /\ m.created_at < now - MONTH

\* The request row `id` is ignored (deleted for its receiver) or confirmed
RequestSettled(id) ==
  \E m \in messages : m.id = id /\ m.kind = "connection_request" /\ ~PendingRow(m)

\* The claim `id` is pending and more than 30 days old
StaleClaim(id) ==
  \E c \in connections : c.id = id /\ c.status = "pending" /\ Stale(c)

\* The claim `id` is no longer pending
ClaimSettled(id) ==
  \E c \in connections : c.id = id /\ c.status # "pending"

ConfirmReqCheck(r, u, t) ==
  /\ reqs[r].pc = "idle"
  /\ nextMsgId + InFlightCount <= MaxMsgId
  /\ IF RespondStatus(u, t) = OK
     THEN reqs' = [reqs EXCEPT ![r] = Req("confirm", u, t)]
     ELSE Answer(r, RespondStatus(u, t))
  /\ UNCHANGED <<otherRouters, messageTable, now, claimTables>>

\* the INSERT of the confirm row and the answer
ConfirmReqInsert(r) ==
  /\ reqs[r].pc = "confirm"
  /\ InsertMessage("confirm", reqs[r].user, reqs[r].to)
  /\ Answer(r, OK)
  /\ UNCHANGED <<otherRouters, now, claimTables>>

NextConfirmSweep ==
  \/ \E u \in Users, t \in Users : SendConnectionRequest(u, t)
  \/ \E r \in Requests, u \in Users, t \in Users : ConfirmReqCheck(r, u, t)
  \/ \E r \in Requests : ConfirmReqInsert(r)
  \/ AutoIgnoreOldConnectionRequests
  \/ Tick

SpecConfirmSweep == Init /\ [][NextConfirmSweep]_vars

\* C13: however the sweep and a confirm of a 30-day-old request interleave, a
\* confirm that has completed leaves the pair connected and the sweep never
\* undoes it: connected pairs stay connected, the sweep leaves every request
\* that has a confirm after it as it is, and a second sweep changes nothing.
C13_ConfirmSurvivesSweep ==
  /\ [][\A r \in Requests, u \in Users, t \in Users :
          (reqs[r] = Req("confirm", u, t) /\ ConfirmReqInsert(r))
            => IsConnected(u, t)']_vars
  /\ [][\A a \in Users, b \in Users : IsConnected(a, b) => IsConnected(a, b)']_vars
  /\ [][AutoIgnoreOldConnectionRequests =>
          /\ \A m \in messages :
               (/\ m.kind = "connection_request"
                /\ ConfirmedAfter(m, m.receiver_id, m.sender_id)) => m \in messages'
          /\ SweptMessages' = messages']_vars

\* C13 witness: the sweep ignored a request between the check and the INSERT of
\* its confirm, and the pair is connected
C13_ConfirmedAfterSweep ==
  \E m \in messages :
    /\ m.kind = "connection_request" /\ m.receiver_deleted
    /\ ConfirmedAfter(m, m.receiver_id, m.sender_id)
    /\ IsConnected(m.sender_id, m.receiver_id)

\* ---------------------------------------------------------------------------
\* Votes on connections and the power score (routers/connections.py).
\* Trustworthiness is kept in hundredths, so that a vote's 0.01 is TRUST_STEP.
\* connection_votes' foreign keys are declared outside the sources at hand, so
\* delete_connection, whose effect on votes they decide, stays out of this part.
\* ---------------------------------------------------------------------------

MaxVoteConnId == 3
MaxDrift == 2
VoteConnIds == 1..MaxVoteConnId
VoteValues == {1, -1}

VoteRow(id, v, x) == [connection_id |-> id, voter_id |-> v, vote |-> x]

\* The vote rows of connection id
VotesOn(id) == {w \in votes : w.connection_id = id}

\* The vote rows of voter v on connection id (none or one)
VoteOf(v, id) == {w \in VotesOn(id) : w.voter_id = v}

RECURSIVE SumVotes(_)
SumVotes(ws) ==
  IF ws = {} THEN 0
  ELSE LET w == CHOOSE x \in ws : TRUE IN w.vote + SumVotes(ws \ {w})

\* COALESCE(SUM(vote), 0) of connection id
VoteSum(id) == SumVotes(VotesOn(id))

\* LEAST(2.0, GREATEST(0.1, t))
Clamp(t) == Min(TRUST_MAX, Max(TRUST_MIN, t))

\* EXISTS a confirmed claim between a and b, in either direction
HasConfirmed(a, b) ==
  \E c \in connections :
    /\ c.status = "confirmed"
    /\ \/ c.from_user_id = a /\ c.to_user_id = b
       \/ c.from_user_id = b /\ c.to_user_id = a

\* _can_vote_on_connection asking for a confirmed claim with either party
CanVoteOnConnectionEither(v, f, t) == HasConfirmed(v, f) \/ HasConfirmed(v, t)

CanVoteOnConnection(v, f, t) == HasConfirmed(v, f) /\ HasConfirmed(v, t)

VoteStatus(v, id) ==
  IF ConnById(id) = {} THEN NOT_FOUND
  ELSE LET conn == CHOOSE c \in ConnById(id) : TRUE
       IN  IF conn.status # "confirmed" THEN BAD_REQUEST
           ELSE IF v \in {conn.from_user_id, conn.to_user_id} THEN FORBIDDEN
           ELSE IF ~CanVoteOnConnection(v, conn.from_user_id, conn.to_user_id)
                THEN FORBIDDEN
           ELSE OK

\* INSERT ... ON CONFLICT (connection_id, voter_id) DO UPDATE SET vote
UpsertVote(id, v, x) == (votes \ VoteOf(v, id)) \cup {VoteRow(id, v, x)}

\* vote_on_connection moving the trustworthiness of the claim's target
VoteOnConnectionTarget(v, id, x) ==
  /\ IF VoteStatus(v, id) = OK
     THEN LET conn == CHOOSE c \in ConnById(id) : TRUE
          IN  /\ votes' = UpsertVote(id, v, x)
              /\ trust' = [trust EXCEPT
                             ![conn.to_user_id] = Clamp(@ + TRUST_STEP * x)]
     ELSE UNCHANGED voteTables
  /\ UNCHANGED <<otherRouters, now, connections, nextId, claimsLog, karma, karmaLastRegen,
                 inFlight, messageTable>>

\* POST /{connection_id}/vote
VoteOnConnection(v, id, x) ==
  /\ IF VoteStatus(v, id) = OK
     THEN LET conn == CHOOSE c \in ConnById(id) : TRUE
          IN  /\ votes' = UpsertVote(id, v, x)
              /\ trust' = [trust EXCEPT
                             ![conn.from_user_id] = Clamp(@ + TRUST_STEP * x)]
     ELSE UNCHANGED voteTables
  /\ UNCHANGED <<otherRouters, now, connections, nextId, claimsLog, karma, karmaLastRegen,
                 inFlight, messageTable>>

RemoveStatus(v, id) == IF VoteOf(v, id) = {} THEN NOT_FOUND ELSE OK

\* DELETE /{connection_id}/vote
RemoveVote(v, id) ==
  /\ IF RemoveStatus(v, id) = OK
     THEN LET w == CHOOSE x \in VoteOf(v, id) : TRUE
          IN  /\ trust' =
                   IF ConnById(id) = {} THEN trust
                   ELSE LET conn == CHOOSE c \in ConnById(id) : TRUE
                        IN  [trust EXCEPT
                               ![conn.from_user_id] = Clamp(@ - TRUST_STEP * w.vote)]
              /\ votes' = votes \ {w}
     ELSE UNCHANGED voteTables
  /\ UNCHANGED <<otherRouters, now, connections, nextId, claimsLog, karma, karmaLastRegen,
                 inFlight, messageTable>>

\* Trustworthiness stays within MaxDrift steps of its start
WithinDrift ==
  \A u \in VoteUsers :
    trust[u] - InitTrust[u] <= MaxDrift /\ InitTrust[u] - trust[u] <= MaxDrift

InitVotes ==
  /\ now = 0
  /\ connections = {}
  /\ nextId = 1
  /\ claimsLog = EmptyBag
  /\ karma = [u \in VoteUsers |-> KARMA_MAX]
  /\ karmaLastRegen = [u \in VoteUsers |-> 0]
  /\ reqs = [r \in Requests |-> Idle]
  /\ messages = {}
  /\ nextMsgId = 1
  /\ votes = {}
  /\ trust = InitTrust
  /\ InitOther

NextVotes ==
  \/ \E u \in VoteUsers, t \in VoteUsers : CreateConnection(u, t, MaxVoteConnId)
  \/ \E u \in VoteUsers, id \in VoteConnIds : ConfirmConnection(u, id)
  \/ \E v \in VoteUsers, id \in VoteConnIds, x \in VoteValues :
       VoteOnConnection(v, id, x) /\ WithinDrift'
  \/ \E v \in VoteUsers, id \in VoteConnIds : RemoveVote(v, id) /\ WithinDrift'

SpecVotes == InitVotes /\ [][NextVotes]_vars

\* Voter v may vote on connection id: the claim is confirmed, v is neither of
\* its parties and v has a confirmed claim with each of them
EligibleVoter(v, id) ==
  \E c \in connections :
    /\ c.id = id /\ c.status = "confirmed"
    /\ v # c.from_user_id /\ v # c.to_user_id
    /\ \E d \in connections :
         d.status = "confirmed" /\ {d.from_user_id, d.to_user_id} = {v, c.from_user_id}
    /\ \E d \in connections :
         d.status = "confirmed" /\ {d.from_user_id, d.to_user_id} = {v, c.to_user_id}

\* C14: vote_on_connection succeeds exactly for an eligible voter; it then
\* stores the voter's vote and changes the trustworthiness of no user but the
\* claim's initiator; in every other case it changes neither votes nor
\* trustworthiness.
C14_VoteOnlyWhenEligible ==
  /\ [](\A v \in VoteUsers, id \in VoteConnIds :
          VoteStatus(v, id) = OK <=> EligibleVoter(v, id))
  /\ [][\A v \in VoteUsers, id \in VoteConnIds, x \in VoteValues :
          VoteOnConnection(v, id, x) =>
            IF EligibleVoter(v, id)
            THEN /\ VoteRow(id, v, x) \in votes'
                 /\ \A w \in votes' : w = VoteRow(id, v, x) \/ w \in votes
                 /\ \A c \in ConnById(id), u \in VoteUsers :
                      u # c.from_user_id => trust'[u] = trust[u]
            ELSE UNCHANGED <<votes, trust>>]_vars

\* C14 witness: a vote is stored while another user is not eligible to vote on
\* the same connection
C14_VoteRecorded ==
  \E w \in votes : \E v \in VoteUsers :
    EligibleVoter(w.voter_id, w.connection_id) /\ ~EligibleVoter(v, w.connection_id)

\* The connections user u initiated
InitiatedBy(u) == {c.id : c \in {d \in connections : d.from_user_id = u}}

\* C15: a voter repeating the vote already stored for a connection changes
\* neither the initiator's trustworthiness nor the connection's vote sum.
C15_RepeatedVoteIdempotent ==
  [][\A v \in VoteUsers, id \in VoteConnIds, x \in VoteValues :
       (/\ VoteStatus(v, id) = OK /\ VoteRow(id, v, x) \in votes
        /\ VoteOnConnection(v, id, x)) =>
         trust' = trust /\ VoteSum(id)' = VoteSum(id)]_vars

\* C16: once no vote is left on any connection a user initiated, that user's
\* trustworthiness is back at its value before the first vote, whatever that
\* value is, the two bounds included.
C16_RemoveRestoresTrust ==
  \A u \in VoteUsers :
    (\A id \in InitiatedBy(u) : VotesOn(id) = {}) => trust[u] = InitTrust[u]

\* ---------------------------------------------------------------------------
\* The power score of list_my_connections, in integers: Decay is
\* EXP(-0.000633 * days) scaled by DECAY_ONE, and Power is the product
\* decay * (1.0 + 0.1 * vote_sum) * (trust_from + trust_to) / 2.0 scaled by
\* DECAY_ONE * 10 * 200, which keeps every factor's sign and order.
\* ---------------------------------------------------------------------------

DECAY_ONE == 45828
DECAY_DAY == 45799
MaxVoters == 11

\* EXP(-0.000633 * d): one factor EXP(-0.000633), that is DECAY_DAY / DECAY_ONE,
\* for each day elapsed
RECURSIVE Decay(_)
Decay(d) == IF d <= 0 THEN DECAY_ONE ELSE (Decay(d - 1) * DECAY_DAY) \div DECAY_ONE

\* 1.0 + COALESCE(vote_sum, 0) * 0.1, in tenths
VoteFactor(id) == 10 + VoteSum(id)

Power(c) ==
  Decay(now - c.created_at)
    * VoteFactor(c.id) * (trust[c.from_user_id] + trust[c.to_user_id])

\* A confirmed claim from 1 to 2 of age 0; the first k voters have voted x on
\* it, and each party's trustworthiness is one of its bounds or in between.
InitPower ==
  /\ now = 0
  /\ connections = {ConnRow(1, 1, 2, "confirmed", 0)}
  /\ nextId = 2
  /\ claimsLog = EmptyBag
  /\ karma = [u \in Users |-> KARMA_MAX]
  /\ karmaLastRegen = [u \in Users |-> 0]
  /\ reqs = [r \in Requests |-> Idle]
  /\ messages = {}
  /\ nextMsgId = 1
  /\ \E k \in 0..MaxVoters, x \in VoteValues :
       votes = {VoteRow(1, v, x) : v \in 3..(k + 2)}
  /\ trust \in [Users -> {InitTrust[u] : u \in VoteUsers}]
  /\ InitOther

NextPower == Tick

SpecPower == InitPower /\ [][NextPower]_vars

\* C17: while a confirmed claim's vote sum and its parties' trustworthiness stay
\* as they are, its power gets strictly smaller as the days pass, whatever the
\* vote sum.
C17_PowerDecreases ==
  [][\A c \in connections :
       (c.status = "confirmed" /\ c \in connections' /\ now' > now
          /\ UNCHANGED <<votes, trust>>)
         => Power(c)' < Power(c)]_vars

\* A step that casts, changes or removes v's vote on connection id
VoteStep(v, id) ==
  \/ \E x \in VoteValues : VoteStatus(v, id) = OK /\ VoteOnConnection(v, id, x)
  \/ RemoveStatus(v, id) = OK /\ RemoveVote(v, id)

\* C18 (as stated): a vote cast, changed or removed on one connection leaves the
\* power of every other connection as it is.
C18_VoteLeavesOtherPowers ==
  [][\A v \in VoteUsers, id \in VoteConnIds :
       VoteStep(v, id) =>
         \A c \in connections : c.id # id => Power(c)' = Power(c)]_vars

\* C18 (amended): a vote cast, changed or removed on one connection leaves the
\* vote sum of every other connection as it is, and the power of every other
\* connection that the voted connection's initiator is no party of. The power
\* of another connection of the initiator follows the initiator's
\* trustworthiness: it changes exactly when the vote step changes that.
C18_VoteLeavesUnrelatedPowers ==
  [][\A v \in VoteUsers, id \in VoteConnIds :
       VoteStep(v, id) =>
         \A c \in connections, voted \in ConnById(id) :
           c.id # id =>
             /\ VoteSum(c.id)' = VoteSum(c.id)
             /\ voted.from_user_id \notin {c.from_user_id, c.to_user_id}
                  => Power(c)' = Power(c)
             /\ (voted.from_user_id \in {c.from_user_id, c.to_user_id}
                   /\ VoteFactor(c.id) # 0)
                  => (Power(c)' = Power(c) <=> trust' = trust)]_vars

\* C18 witness: a vote is stored on a connection whose initiator's
\* trustworthiness it moved, beside a connection of that initiator and a
\* connection the initiator is no party of
C18_VotedBesideOthers ==
  \E w \in votes : \E voted \in ConnById(w.connection_id) :
    /\ trust[voted.from_user_id] # InitTrust[voted.from_user_id]
    /\ \E c \in connections :
         c.id # voted.id /\ voted.from_user_id \in {c.from_user_id, c.to_user_id}
    /\ \E c \in connections :
         c.id # voted.id /\ voted.from_user_id \notin {c.from_user_id, c.to_user_id}

\* ---------------------------------------------------------------------------
\* routers/messages.py: text messages between connected users. Its
\* _is_connected is the query of people.py's, word for word.
\* ---------------------------------------------------------------------------

\* send_message without its connection check
MessageStatusOpen(u, t) ==
  IF t = NoUser THEN NOT_FOUND
  ELSE IF t = u THEN BAD_REQUEST
  ELSE OK

MessageStatus(u, t) ==
  IF t = NoUser THEN NOT_FOUND
  ELSE IF t = u THEN BAD_REQUEST
  ELSE IF ~IsConnected(u, t) THEN FORBIDDEN
  ELSE OK

\* POST /to/{handle}/message
SendMessage(u, t) ==
  /\ nextMsgId <= MaxMsgId
  /\ IF MessageStatus(u, t) = OK
     THEN InsertMessage("text", u, t)
     ELSE UNCHANGED messageTable
  /\ UNCHANGED <<otherRouters, now, claimTables, inFlight>>

NextMessages ==
  \/ NextPeople
  \/ \E u \in Users, t \in Users \cup {NoUser} : SendMessage(u, t)

SpecMessages == Init /\ [][NextMessages]_vars

\* A confirm row exists between a and b
ConfirmBetween(a, b) ==
  \E m \in messages : m.kind = "confirm" /\ {m.sender_id, m.receiver_id} = {a, b}

\* The text rows of the messages table
TextRows == {m \in messages : m.kind = "text"}

\* C19: send_message from a user to another inserts one text row when a confirm
\* row stands between the two, and otherwise (never connected, a request only
\* pending or ignored, or disconnected since) answers Forbidden and inserts
\* nothing.
C19_MessageOnlyWhenConnected ==
  /\ [](\A u \in Users, t \in Users :
          u # t => MessageStatus(u, t) = IF ConfirmBetween(u, t) THEN OK ELSE FORBIDDEN)
  /\ [][\A u \in Users, t \in Users :
          (u # t /\ SendMessage(u, t)) =>
            IF ConfirmBetween(u, t)
            THEN /\ TextRows' = TextRows \cup {MsgRow(nextMsgId, "text", u, t)}
                 /\ Cardinality(messages') = Cardinality(messages) + 1
            ELSE UNCHANGED messages]_vars

\* C19 witness: a text message was sent while the pair was connected, and the
\* pair has disconnected since
C19_MessagedThenDisconnected ==
  \E m \in TextRows : ~ConfirmBetween(m.sender_id, m.receiver_id)

\* C20: connectedness is one fact: a pair has a confirmed claim in the
\* connections table exactly when the connectedness predicate of messaging and
\* post visibility holds for it.
C20_OneConnectedness ==
  \A a \in Users, b \in Users :
    a # b => (HasConfirmed(a, b) <=> IsConnected(a, b))

\* ---------------------------------------------------------------------------
\* routers/messages.py: the read cursor of a conversation. A row of
\* conversation_reads names its conversation through the message it points
\* at; a row whose message is gone joins to nothing.
\* ---------------------------------------------------------------------------

\* The rows of messages between u and t, in either direction
Between(u, t) ==
  {m \in messages : \/ m.sender_id = u /\ m.receiver_id = t
                    \/ m.sender_id = t /\ m.receiver_id = u}

\* The rows of conversation_reads of u that join to a message between u and t
CursorRows(u, t) ==
  {cr \in reads : /\ cr.user_id = u
                  /\ cr.last_read_message_id \in {m.id : m \in Between(u, t)}}

\* _get_last_read_message_id, with the COALESCE(..., 0) of its callers: the id
\* one of the joined rows holds (fetch_one), or 0 with no row
LastReadMessageId(u, t) ==
  IF CursorRows(u, t) = {} THEN 0
  ELSE (CHOOSE cr \in CursorRows(u, t) : TRUE).last_read_message_id

\* unread_count of list_conversations: the messages from t to u that u has not
\* deleted and whose id is above the cursor
UnreadMessages(u, t) ==
  {m \in messages : /\ m.sender_id = t /\ m.receiver_id = u
                    /\ ~m.receiver_deleted
                    /\ m.id > LastReadMessageId(u, t)}

\* The messages get_messages selects for u in the conversation with t: those u
\* has not deleted, below before_id when one is given (0 stands for none, as
\* `if before_id:` reads it). LIMIT keeps the newest rows, so the page's
\* greatest id is this set's for every limit of at least 1.
FetchedMessages(u, t, before_id) ==
  {m \in Between(u, t) :
     /\ \/ m.sender_id = u /\ ~m.sender_deleted
        \/ m.receiver_id = u /\ ~m.receiver_deleted
     /\ (before_id # 0 => m.id < before_id)}

\* max(m["id"] for m in messages)
MaxMessageId(page) == CHOOSE i \in {m.id : m \in page} : \A m \in page : m.id <= i

\* _update_last_read, its DELETE
DeletedLastRead(u, t) == reads \ CursorRows(u, t)

\* _update_last_read, its INSERT (onto the table the DELETE left or, between
\* two requests, onto whatever the table holds by then)
InsertedLastRead(table, u, id) ==
  table \cup {[user_id |-> u, last_read_message_id |-> id]}

\* GET /with/{handle}/messages served without interruption
GetMessages(u, t, before_id) ==
  /\ IF t # NoUser /\ FetchedMessages(u, t, before_id) # {}
     THEN reads' = InsertedLastRead(DeletedLastRead(u, t), u,
                                    MaxMessageId(FetchedMessages(u, t, before_id)))
     ELSE UNCHANGED reads
  /\ UNCHANGED <<readers, now, claimTables, inFlight, messageTable,
                 factTables, postTables, limiterState>>

\* One state of Init: nothing in any table
InitReads == Init /\ karma = [u \in Users |-> KARMA_MAX]

\* What makes and unmakes a conversation: request, confirm, message, disconnect
NextConversation ==
  \/ \E u \in Users, t \in Users : SendConnectionRequest(u, t)
  \/ \E u \in Users, t \in Users : ConfirmRequest(u, t)
  \/ \E u \in Users, t \in Users : SendMessage(u, t)
  \/ \E u \in Users, t \in Users : Disconnect(u, t)

NextReads ==
  \/ NextConversation
  \/ \E u \in Users, t \in Users \cup {NoUser}, b \in {0} \cup MsgIds :
       GetMessages(u, t, b)

SpecReads == InitReads /\ [][NextReads]_vars

\* get_messages statement by statement: the page SELECT, then the DELETE and
\* the INSERT of _update_last_read, each awaited on its own, outside any
\* transaction.
GetMessagesFetch(r, u, t, before_id) ==
  /\ readers[r] = IdleReader
  /\ t # NoUser /\ FetchedMessages(u, t, before_id) # {}
  /\ readers' = [readers EXCEPT ![r] =
       Reader("delete", u, t, MaxMessageId(FetchedMessages(u, t, before_id)))]
  /\ UNCHANGED <<reads, now, claimTables, inFlight, messageTable,
                 factTables, postTables, limiterState>>

GetMessagesDelete(r) ==
  /\ readers[r].pc = "delete"
  /\ reads' = DeletedLastRead(readers[r].user, readers[r].to)
  /\ readers' = [readers EXCEPT ![r].pc = "insert"]
  /\ UNCHANGED <<now, claimTables, inFlight, messageTable,
                 factTables, postTables, limiterState>>

GetMessagesInsert(r) ==
  /\ readers[r].pc = "insert"
  /\ reads' = InsertedLastRead(reads, readers[r].user, readers[r].id)
  /\ readers' = [readers EXCEPT ![r] = IdleReader]
  /\ UNCHANGED <<now, claimTables, inFlight, messageTable,
                 factTables, postTables, limiterState>>

NextReadsConc ==
  \/ NextConversation
  \/ \E r \in Readers, u \in Users, t \in Users \cup {NoUser},
        b \in {0} \cup MsgIds : GetMessagesFetch(r, u, t, b)
  \/ \E r \in Readers : GetMessagesDelete(r)
  \/ \E r \in Readers : GetMessagesInsert(r)

SpecReadsConc == InitReads /\ [][NextReadsConc]_vars

\* C21: the read cursor of a (user, partner) conversation never decreases,
\* whatever get_messages calls (latest page or a page before before_id),
\* arrivals and disconnects happen, and a partner message once read is never
\* unread again.
C21_CursorOnlyAdvances ==
  [][\A u \in Users, t \in Users :
       u # t => /\ LastReadMessageId(u, t)' >= LastReadMessageId(u, t)
                /\ \A m \in messages :
                     (m \in messages' /\ m \in UnreadMessages(u, t)')
                       => m \in UnreadMessages(u, t)]_vars

\* C22: at most one read-cursor row exists per (user, partner), however
\* concurrent get_messages calls of one user for one partner interleave.
C22_OneCursorRowPerPair ==
  \A u \in Users, t \in Users : Cardinality(CursorRows(u, t)) <= 1

\* ---------------------------------------------------------------------------
\* routers/facts.py and routers/page_api.py: facts about users and pages.
\* approved_at and vetoed_at are NULL (FALSE) or set (TRUE); a viewer of
\* NoUser is a request without a session.
\* ---------------------------------------------------------------------------

\* subject_page_id IS NULL
NoPage == 0

\* The bounds VoteCreate accepts for value
VOTE_MIN == -3
VOTE_MAX == 3

FactIds == 1..MaxFactId

PageIds == {1}

FactVoteValues == {VOTE_MIN, VOTE_MAX}

\* Every pair of the three users, once
AllPairs == {p \in VoteUsers \X VoteUsers : p[1] < p[2]}

PairIndex(p) ==
  Cardinality({q \in AllPairs : q[1] < p[1] \/ (q[1] = p[1] /\ q[2] <= p[2])})

\* SELECT * FROM facts WHERE id = :fact_id
FactById(id) == CHOOSE f \in facts : f.id = id

FactExists(id) == \E f \in facts : f.id = id

\* is_page_editor: the page's owner, or an editor who accepted
IsPageEditor(page_id, u) ==
  \/ \E p \in pages : p.id = page_id /\ p.owner_id = u
  \/ \E e \in pageEditors : e.page_id = page_id /\ e.user_id = u /\ e.accepted

\* _is_page_owner
IsPageOwner(page_id, u) == \E p \in pages : p.id = page_id /\ p.owner_id = u

\* approved, or past the cooldown
IsPublic(f) == f.approved \/ now >= f.public_at

\* The branch can_view_fact takes for a vetoed fact and for one still in its
\* cooldown and not approved
CanViewHidden(viewer, f) ==
  IF viewer = NoUser THEN FALSE
  ELSE IF f.author_id = viewer THEN TRUE
  ELSE IF f.subject_user_id # NoUser /\ f.subject_user_id = viewer THEN TRUE
  ELSE IF f.subject_page_id # NoPage THEN IsPageEditor(f.subject_page_id, viewer)
  ELSE FALSE

\* can_view_fact without its vetoed_at branch
CanViewFactUnvetoed(viewer, f) ==
  IF ~IsPublic(f) THEN CanViewHidden(viewer, f)
  ELSE IF viewer = NoUser THEN FALSE
  ELSE IF f.author_id = viewer THEN TRUE
  ELSE IF f.subject_user_id # NoUser /\ f.subject_user_id = viewer THEN TRUE
  ELSE IF f.subject_page_id # NoPage /\ IsPageEditor(f.subject_page_id, viewer) THEN TRUE
  ELSE IsConnected(viewer, f.author_id)

CanViewFact(viewer, f) ==
  IF f.vetoed THEN CanViewHidden(viewer, f)
  ELSE IF ~IsPublic(f) THEN CanViewHidden(viewer, f)
  ELSE IF viewer = NoUser THEN FALSE
  ELSE IF f.author_id = viewer THEN TRUE
  ELSE IF f.subject_user_id # NoUser /\ f.subject_user_id = viewer THEN TRUE
  ELSE IF f.subject_page_id # NoPage /\ IsPageEditor(f.subject_page_id, viewer) THEN TRUE
  ELSE IsConnected(viewer, f.author_id)

FactRow(id, a, su, sp, public_at, approved) ==
  [id |-> id, author_id |-> a, subject_user_id |-> su, subject_page_id |-> sp,
   public_at |-> public_at, approved |-> approved, vetoed |-> FALSE,
   vote_sum |-> 0, vote_count |-> 0]

\* create_fact for a valid template: about user su when one is named, else
\* about page sp when one is named
CreateFactStatus(a, su, sp) ==
  IF su # NoUser
  THEN IF su = a THEN BAD_REQUEST
       ELSE IF ~IsConnected(a, su) THEN FORBIDDEN
       ELSE OK
  ELSE IF sp # NoPage
  THEN IF ~\E p \in pages : p.id = sp THEN NOT_FOUND
       ELSE IF /\ ~\E w \in pageFollows : w.page_id = sp /\ w.user_id = a
               /\ ~IsPageEditor(sp, a)
       THEN FORBIDDEN
       ELSE OK
  ELSE BAD_REQUEST

\* POST /api/facts. public_at is the column's default, which the database
\* computes: some instant not before the INSERT.
CreateFact(a, su, sp) ==
  /\ nextFactId <= MaxFactId
  /\ IF CreateFactStatus(a, su, sp) = OK
     THEN /\ \E p \in {t \in Times : t >= now} :
               facts' = facts \cup
                 {IF su # NoUser
                  THEN FactRow(nextFactId, a, su, NoPage, p, FALSE)
                  ELSE FactRow(nextFactId, a, NoUser, sp, p, IsPageEditor(sp, a))}
          /\ nextFactId' = nextFactId + 1
     ELSE UNCHANGED <<facts, nextFactId>>
  /\ UNCHANGED <<factVotes, pageTables, now, claimTables, inFlight, messageTable,
                 readTables, postTables, limiterState>>

\* Who delete_or_veto_fact lets veto a fact: its subject user, or an editor of
\* its subject page
MayVeto(u, f) ==
  \/ f.subject_user_id # NoUser /\ f.subject_user_id = u
  \/ f.subject_page_id # NoPage /\ IsPageEditor(f.subject_page_id, u)

DeleteOrVetoStatus(u, id) ==
  IF ~FactExists(id) THEN NOT_FOUND
  ELSE IF FactById(id).author_id = u THEN OK
  ELSE IF MayVeto(u, FactById(id)) THEN OK
  ELSE FORBIDDEN

\* DELETE /api/facts/{fact_id}: the author deletes the row (its votes go with
\* it), the subject or a page editor sets vetoed_at
DeleteOrVetoFact(u, id) ==
  /\ IF DeleteOrVetoStatus(u, id) # OK
     THEN UNCHANGED <<facts, factVotes>>
     ELSE IF FactById(id).author_id = u
     THEN /\ facts' = facts \ {FactById(id)}
          /\ factVotes' = {v \in factVotes : v.fact_id # id}
     ELSE /\ facts' = (facts \ {FactById(id)})
                        \cup {[FactById(id) EXCEPT !.vetoed = TRUE]}
          /\ UNCHANGED factVotes
  /\ UNCHANGED <<nextFactId, pageTables, now, claimTables, inFlight, messageTable,
                 readTables, postTables, limiterState>>

ApproveStatus(u, id) ==
  IF ~FactExists(id) THEN NOT_FOUND
  ELSE IF FactById(id).vetoed THEN BAD_REQUEST
  ELSE IF FactById(id).approved THEN OK
  ELSE IF MayVeto(u, FactById(id)) THEN OK
  ELSE FORBIDDEN

\* POST /api/facts/{fact_id}/approve
ApproveFact(u, id) ==
  /\ IF ApproveStatus(u, id) = OK
     THEN facts' = (facts \ {FactById(id)})
                     \cup {[FactById(id) EXCEPT !.approved = TRUE]}
     ELSE UNCHANGED facts
  /\ UNCHANGED <<nextFactId, factVotes, pageTables, now, claimTables, inFlight,
                 messageTable, readTables, postTables, limiterState>>

FactVoteRow(id, u, x) == [fact_id |-> id, user_id |-> u, value |-> x]

FactVotesOn(table, id) == {v \in table : v.fact_id = id}

RECURSIVE SumValues(_)
SumValues(vs) ==
  IF vs = {} THEN 0
  ELSE LET v == CHOOSE x \in vs : TRUE IN v.value + SumValues(vs \ {v})

\* update_fact_vote_stats over the fact_votes table given
UpdatedFactVoteStats(table, id) ==
  {IF f.id = id
   THEN [f EXCEPT !.vote_sum = SumValues(FactVotesOn(table, id)),
                  !.vote_count = Cardinality(FactVotesOn(table, id))]
   ELSE f : f \in facts}

\* vote_on_fact without its connection check
FactVoteStatusUnconnected(u, id) ==
  IF ~FactExists(id) THEN NOT_FOUND
  ELSE IF FactById(id).author_id = u THEN BAD_REQUEST
  ELSE IF ~CanViewFact(u, FactById(id)) THEN FORBIDDEN
  ELSE OK

FactVoteStatus(u, id) ==
  IF ~FactExists(id) THEN NOT_FOUND
  ELSE IF FactById(id).author_id = u THEN BAD_REQUEST
  ELSE IF ~CanViewFact(u, FactById(id)) THEN FORBIDDEN
  ELSE IF ~IsConnected(u, FactById(id).author_id) THEN FORBIDDEN
  ELSE OK

\* fact_votes after vote_on_fact's DELETE (the same value again) or upsert
FactVotesAfter(u, id, x) ==
  IF FactVoteRow(id, u, x) \in factVotes
  THEN factVotes \ {FactVoteRow(id, u, x)}
  ELSE {v \in factVotes : ~(v.fact_id = id /\ v.user_id = u)}
         \cup {FactVoteRow(id, u, x)}

\* POST /api/facts/{fact_id}/vote
VoteOnFact(u, id, x) ==
  /\ IF FactVoteStatus(u, id) = OK
     THEN /\ factVotes' = FactVotesAfter(u, id, x)
          /\ facts' = UpdatedFactVoteStats(FactVotesAfter(u, id, x), id)
     ELSE UNCHANGED <<facts, factVotes>>
  /\ UNCHANGED <<nextFactId, pageTables, now, claimTables, inFlight, messageTable,
                 readTables, postTables, limiterState>>

\* DELETE /api/facts/{fact_id}/vote
RemoveFactVote(u, id) ==
  /\ IF FactExists(id)
     THEN /\ factVotes' = {v \in factVotes : ~(v.fact_id = id /\ v.user_id = u)}
          /\ facts' = UpdatedFactVoteStats(
                        {v \in factVotes : ~(v.fact_id = id /\ v.user_id = u)}, id)
     ELSE UNCHANGED <<facts, factVotes>>
  /\ UNCHANGED <<nextFactId, pageTables, now, claimTables, inFlight, messageTable,
                 readTables, postTables, limiterState>>

\* GET /api/facts/pending-veto: the pages come from page_editors by user_id
\* alone
ListPendingVeto(u) ==
  LET page_ids == {e.page_id : e \in {x \in pageEditors : x.user_id = u}}
  IN  {f \in facts : /\ \/ f.subject_user_id = u
                        \/ f.subject_page_id \in page_ids
                     /\ ~f.vetoed
                     /\ f.author_id # u}

EditorRow(page_id, u, accepted) ==
  [page_id |-> page_id, user_id |-> u, accepted |-> accepted]

InviteStatus(u, page_id, t) ==
  IF ~\E p \in pages : p.id = page_id THEN NOT_FOUND
  ELSE IF ~IsPageOwner(page_id, u) THEN FORBIDDEN
  ELSE IF IsPageOwner(page_id, t) THEN BAD_REQUEST
  ELSE IF \E e \in pageEditors : e.page_id = page_id /\ e.user_id = t THEN BAD_REQUEST
  ELSE OK

\* POST /api/pages/{handle}/editors/{user_handle}
InviteEditor(u, page_id, t) ==
  /\ IF InviteStatus(u, page_id, t) = OK
     THEN pageEditors' = pageEditors \cup {EditorRow(page_id, t, FALSE)}
     ELSE UNCHANGED pageEditors
  /\ UNCHANGED <<pages, pageFollows, facts, nextFactId, factVotes, now, claimTables,
                 inFlight, messageTable, readTables, postTables, limiterState>>

\* POST /api/pages/invitations/{page_handle}/accept
AcceptInvitation(u, page_id) ==
  /\ IF EditorRow(page_id, u, FALSE) \in pageEditors
     THEN pageEditors' = (pageEditors \ {EditorRow(page_id, u, FALSE)})
                           \cup {EditorRow(page_id, u, TRUE)}
     ELSE UNCHANGED pageEditors
  /\ UNCHANGED <<pages, pageFollows, facts, nextFactId, factVotes, now, claimTables,
                 inFlight, messageTable, readTables, postTables, limiterState>>

\* POST /api/pages/invitations/{page_handle}/decline
DeclineInvitation(u, page_id) ==
  /\ pageEditors' = pageEditors \ {EditorRow(page_id, u, FALSE)}
  /\ UNCHANGED <<pages, pageFollows, facts, nextFactId, factVotes, now, claimTables,
                 inFlight, messageTable, readTables, postTables, limiterState>>

\* Every pair connected (a request and its confirm for each), the third user
\* owning the one page, which all three follow
InitFacts ==
  /\ now = 0
  /\ connections = {}
  /\ nextId = 1
  /\ claimsLog = EmptyBag
  /\ karma = [u \in VoteUsers |-> KARMA_MAX]
  /\ karmaLastRegen = [u \in VoteUsers |-> 0]
  /\ reqs = [r \in Requests |-> Idle]
  /\ messages = UNION {{MsgRow(2 * PairIndex(p) - 1, "connection_request", p[1], p[2]),
                        MsgRow(2 * PairIndex(p), "confirm", p[2], p[1])} : p \in AllPairs}
  /\ nextMsgId = 2 * Cardinality(AllPairs) + 1
  /\ votes = {}
  /\ trust = InitTrust
  /\ reads = {}
  /\ readers = [r \in Readers |-> IdleReader]
  /\ facts = {}
  /\ nextFactId = 1
  /\ factVotes = {}
  /\ pages = {[id |-> p, owner_id |-> Cardinality(VoteUsers)] : p \in PageIds}
  /\ pageEditors = {}
  /\ pageFollows = {[page_id |-> p, user_id |-> u] : p \in PageIds, u \in VoteUsers}
  /\ posts = {}
  /\ nextPostId = 1
  /\ postVotes = {}
  /\ clock = 0
  /\ requestLog = [k \in LimiterKeys |-> <<>>]
  /\ blockedIps = [ip \in ClientIps |-> NotBlocked]

Viewers == VoteUsers \cup {NoUser}

\* Facts made, approved, vetoed and deleted, editors invited, pairs disconnected
NextFactStates ==
  \/ \E a \in VoteUsers, su \in Viewers, sp \in PageIds \cup {NoPage} : CreateFact(a, su, sp)
  \/ \E u \in VoteUsers, id \in FactIds : DeleteOrVetoFact(u, id)
  \/ \E u \in VoteUsers, id \in FactIds : ApproveFact(u, id)
  \/ \E u \in VoteUsers, t \in VoteUsers, p \in PageIds : InviteEditor(u, p, t)
  \/ \E u \in VoteUsers, p \in PageIds : AcceptInvitation(u, p)
  \/ \E u \in VoteUsers, p \in PageIds : DeclineInvitation(u, p)
  \/ \E u \in VoteUsers, t \in VoteUsers : Disconnect(u, t)

\* ... as time passes
NextFacts ==
  \/ NextFactStates
  \/ Tick

\* ... with votes, at one instant
NextFactVotes ==
  \/ NextFactStates
  \/ \E u \in VoteUsers, id \in FactIds, x \in FactVoteValues : VoteOnFact(u, id, x)
  \/ \E u \in VoteUsers, id \in FactIds : RemoveFactVote(u, id)

SpecFacts == InitFacts /\ [][NextFacts]_vars

SpecFactVotes == InitFacts /\ [][NextFactVotes]_vars

\* The author of f, its subject user, the owner of its subject page or an
\* editor of that page who accepted
Insider(v, f) ==
  /\ v # NoUser
  /\ \/ v = f.author_id
     \/ v = f.subject_user_id
     \/ \E p \in pages : p.id = f.subject_page_id /\ p.owner_id = v
     \/ EditorRow(f.subject_page_id, v, TRUE) \in pageEditors

\* Vetoed, or neither approved nor past its cooldown
Hidden(f) == f.vetoed \/ (~f.approved /\ now < f.public_at)

\* C23: a fact that is vetoed, or unapproved and still in its cooldown, is
\* viewable by exactly its author, its subject user and the owner and accepted
\* editors of its subject page; a veto takes the fact from every other viewer,
\* the author's connections included; and a viewer without a session, or one
\* who is no insider and not connected to the author, sees no fact.
C23_HiddenFactViewers ==
  /\ [](\A f \in facts, v \in Viewers :
          Hidden(f) => (CanViewFact(v, f) <=> Insider(v, f)))
  /\ [][\A u \in VoteUsers, id \in FactIds, v \in Viewers :
          (/\ DeleteOrVetoFact(u, id)
           /\ FactExists(id) /\ ~FactById(id).vetoed
           /\ FactExists(id)' /\ FactById(id)'.vetoed
           /\ ~Insider(v, FactById(id)))
            => ~CanViewFact(v, FactById(id))']_vars
  /\ [](\A f \in facts, v \in Viewers :
          (v = NoUser \/ (~Insider(v, f) /\ ~IsConnected(v, f.author_id)))
            => ~CanViewFact(v, f))

\* C23 witness: a vetoed fact past its cooldown or approved, and a user
\* connected to its author who is no insider (and would see it but for the
\* veto)
C23_VetoedFromConnection ==
  \E f \in facts, v \in VoteUsers :
    /\ f.vetoed /\ IsPublic(f)
    /\ IsConnected(v, f.author_id) /\ ~Insider(v, f)
    /\ \E w \in VoteUsers : w # f.author_id /\ Insider(w, f) /\ CanViewFact(w, f)

\* The value of u's vote on fact id, as a set: empty without a vote
FactVoteOf(u, id) == {v.value : v \in {w \in factVotes : w.fact_id = id /\ w.user_id = u}}

\* C24: vote_on_fact records a vote, changes it or (the same value again)
\* removes it, and refreshes the fact's cached vote_sum and vote_count, only
\* when the voter is not the fact's author, is connected to the author and can
\* view the fact; in every other case fact_votes and the cached vote_sum and
\* vote_count stay as they were.
C24_FactVoteOnlyWhenAllowed ==
  [][\A u \in VoteUsers, id \in FactIds, x \in FactVoteValues :
       VoteOnFact(u, id, x) =>
         IF /\ FactExists(id)
            /\ u # FactById(id).author_id
            /\ IsConnected(u, FactById(id).author_id)
            /\ CanViewFact(u, FactById(id))
         THEN /\ FactVoteOf(u, id)' = IF FactVoteOf(u, id) = {x} THEN {} ELSE {x}
              /\ \A w \in VoteUsers : w # u => FactVoteOf(w, id)' = FactVoteOf(w, id)
              /\ FactById(id)'.vote_count = Cardinality(FactVotesOn(factVotes', id))
              /\ FactById(id)'.vote_sum = SumValues(FactVotesOn(factVotes', id))
         ELSE UNCHANGED <<factVotes, facts>>]_vars

\* C24 witness: a fact carries the vote of a user connected to its author, and
\* another user who may see it cannot vote for want of a connection
C24_FactVoteRecorded ==
  \E f \in facts, v \in factVotes, w \in VoteUsers :
    /\ v.fact_id = f.id /\ f.vote_count > 0 /\ IsConnected(v.user_id, f.author_id)
    /\ w # f.author_id /\ CanViewFact(w, f) /\ ~IsConnected(w, f.author_id)

\* C29: no vote is recorded on a fact that is vetoed or not yet public:
\* vote_on_fact on such a fact leaves fact_votes as it was for every voter, the
\* subject user and the subject page's editors included.
C29_NoVoteOnHiddenFact ==
  [][\A u \in VoteUsers, id \in FactIds, x \in FactVoteValues :
       (VoteOnFact(u, id, x) /\ FactExists(id) /\ Hidden(FactById(id)))
         => UNCHANGED factVotes]_vars

\* C30: list_pending_veto returns for a caller exactly the facts not vetoed and
\* not written by the caller that delete_or_veto_fact lets the caller veto
\* (about the caller, or about a page the caller owns or edits after
\* accepting), and so no fact about a page the caller was only invited to.
C30_PendingVetoIsVetoable ==
  \A u \in VoteUsers :
    ListPendingVeto(u) =
      {f \in facts : ~f.vetoed /\ f.author_id # u /\ DeleteOrVetoStatus(u, f.id) = OK}

\* ---------------------------------------------------------------------------
\* Karma regeneration over several months: claims by users who start without
\* karma at clock 0, at instants a day past each half month.
\* ---------------------------------------------------------------------------

RegenTimes == {0} \cup {i * (MONTH \div 2) + DAY : i \in 1..MaxHalfMonths}

TickRegen ==
  /\ \E t \in RegenTimes : t > now /\ now' = t
  /\ UNCHANGED <<otherRouters, connections, nextId, claimsLog, karma, karmaLastRegen,
                 inFlight, messageTable, voteTables>>

InitRegen == Init /\ karma = [u \in Users |-> 0]

NextRegen ==
  \/ \E u \in Users, t \in Users \cup {NoUser} : CreateConnection(u, t, MaxClaimId)
  \/ TickRegen

SpecRegen == InitRegen /\ [][NextRegen]_vars

\* C27: whatever create_connection calls were made and when, the karma a user
\* who started with k = 0 at clock t0 = 0 has at instant now, as _check_karma
\* would find it, is min(15, k + floor((now - t0) / 30 days)).
C27_KarmaIndependentOfCalls ==
  \A u \in Users : KarmaAfterRegen(u) = Min(KARMA_MAX, now \div MONTH)

\* ---------------------------------------------------------------------------
\* routers/posts.py: posts, comments and votes on them. reply_to_id and
\* root_post_id are NULL (NoPost) on a top-level post.
\* ---------------------------------------------------------------------------

NoPost == 0

PostIds == 1..MaxPostId

Visibilities == {"public", "connections"}

PostVoteValues == {1, -1}

PostRow(id, a, vis, reply_to_id, root_post_id) ==
  [id |-> id, author_id |-> a, visibility |-> vis, reply_to_id |-> reply_to_id,
   root_post_id |-> root_post_id, comment_count |-> 0,
   upvote_count |-> 0, downvote_count |-> 0]

PostExists(id) == \E p \in posts : p.id = id

\* get_post_by_id
PostById(id) == CHOOSE p \in posts : p.id = id

\* can_view_post for every logged-in viewer
CanViewPostAnyUser(user_id, post) ==
  IF post.visibility = "public" THEN TRUE
  ELSE IF user_id = NoUser THEN FALSE
  ELSE TRUE

CanViewPost(user_id, post) ==
  IF post.visibility = "public" THEN TRUE
  ELSE IF user_id = NoUser THEN FALSE
  ELSE IF post.author_id = user_id THEN TRUE
  ELSE IsConnected(user_id, post.author_id)

\* get_root_post
RootPost(post) ==
  IF post.reply_to_id = NoPost THEN post
  ELSE IF post.root_post_id # NoPost /\ PostExists(post.root_post_id)
  THEN PostById(post.root_post_id)
  ELSE post

\* GET /api/posts/{post_id}
GetPostStatus(viewer, id) ==
  IF ~PostExists(id) THEN NOT_FOUND
  ELSE IF ~CanViewPost(viewer, RootPost(PostById(id))) THEN FORBIDDEN
  ELSE OK

\* POST /api/posts
CreatePost(u, vis, maxId) ==
  /\ nextPostId <= maxId
  /\ posts' = posts \cup {PostRow(nextPostId, u, vis, NoPost, NoPost)}
  /\ nextPostId' = nextPostId + 1
  /\ UNCHANGED <<postVotes, now, claimTables, inFlight, messageTable, readTables,
                 factTables, limiterState>>

\* update_comment_count(post_id) over the rows given: the row post_id gets the
\* number of rows whose root_post_id it is
UpdatedCommentCount(rows, post_id) ==
  {IF p.id = post_id
   THEN [p EXCEPT !.comment_count =
           Cardinality({q \in rows : q.root_post_id = post_id})]
   ELSE p : p \in rows}

CreateReplyStatus(u, id) ==
  IF ~PostExists(id) THEN NOT_FOUND
  ELSE IF ~CanViewPost(u, RootPost(PostById(id))) THEN FORBIDDEN
  ELSE OK

\* The row create_reply inserts under parent: the thread's root and the root's
\* visibility are inherited
ReplyRow(u, parent) ==
  PostRow(nextPostId, u, RootPost(parent).visibility, parent.id,
          IF parent.reply_to_id = NoPost THEN parent.id ELSE parent.root_post_id)

\* POST /api/posts/{post_id}/reply
CreateReply(u, id, maxId) ==
  /\ nextPostId <= maxId
  /\ IF CreateReplyStatus(u, id) = OK
     THEN /\ posts' = UpdatedCommentCount(posts \cup {ReplyRow(u, PostById(id))}, id)
          /\ nextPostId' = nextPostId + 1
     ELSE UNCHANGED <<posts, nextPostId>>
  /\ UNCHANGED <<postVotes, now, claimTables, inFlight, messageTable, readTables,
                 factTables, limiterState>>

\* The rows the DELETE's cascade removes with post id: the comments under it,
\* at any depth
RECURSIVE Descendants(_, _)
Descendants(rows, ids) ==
  LET below == {p.id : p \in {q \in rows : q.reply_to_id \in ids}} \ ids
  IN  IF below = {} THEN ids ELSE Descendants(rows, ids \cup below)

DeletePostStatus(u, id) ==
  IF ~PostExists(id) THEN NOT_FOUND
  ELSE IF PostById(id).author_id # u THEN FORBIDDEN
  ELSE OK

\* DELETE /api/posts/{post_id}
DeletePost(u, id) ==
  /\ IF DeletePostStatus(u, id) = OK
     THEN LET gone == Descendants(posts, {id})
              left == {p \in posts : p.id \notin gone}
              parent_id == PostById(id).reply_to_id
          IN  /\ posts' = IF parent_id # NoPost
                          THEN UpdatedCommentCount(left, parent_id)
                          ELSE left
              /\ postVotes' = {v \in postVotes : v.post_id \notin gone}
     ELSE UNCHANGED <<posts, postVotes>>
  /\ UNCHANGED <<nextPostId, now, claimTables, inFlight, messageTable, readTables,
                 factTables, limiterState>>

PostVoteStatus(u, id) ==
  IF ~PostExists(id) THEN NOT_FOUND
  ELSE IF PostById(id).author_id = u THEN BAD_REQUEST
  ELSE IF ~CanViewPost(u, RootPost(PostById(id))) THEN FORBIDDEN
  ELSE OK

PostVoteRow(id, u, x) == [post_id |-> id, user_id |-> u, value |-> x]

\* post_votes after the upsert
UpsertPostVote(u, id, x) ==
  {v \in postVotes : ~(v.post_id = id /\ v.user_id = u)} \cup {PostVoteRow(id, u, x)}

\* update_vote_counts(post_id) over the post_votes rows given
UpdatedVoteCounts(table, id) ==
  {IF p.id = id
   THEN [p EXCEPT
           !.upvote_count = Cardinality({v \in table : v.post_id = id /\ v.value = 1}),
           !.downvote_count = Cardinality({v \in table : v.post_id = id /\ v.value = -1})]
   ELSE p : p \in posts}

\* POST /api/posts/{post_id}/vote
VoteOnPost(u, id, x) ==
  /\ IF PostVoteStatus(u, id) = OK
     THEN /\ postVotes' = UpsertPostVote(u, id, x)
          /\ posts' = UpdatedVoteCounts(UpsertPostVote(u, id, x), id)
     ELSE UNCHANGED <<posts, postVotes>>
  /\ UNCHANGED <<nextPostId, now, claimTables, inFlight, messageTable, readTables,
                 factTables, limiterState>>

\* The three users connected pairwise and no post yet
InitPosts == InitFacts

\* Posts and comments written, voted on and deleted while pairs disconnect
NextPosts ==
  \/ \E u \in VoteUsers, vis \in Visibilities : CreatePost(u, vis, MaxVotedPostId)
  \/ \E u \in VoteUsers, id \in PostIds : CreateReply(u, id, MaxVotedPostId)
  \/ \E u \in VoteUsers, id \in PostIds, x \in PostVoteValues : VoteOnPost(u, id, x)
  \/ \E u \in VoteUsers, id \in PostIds : DeletePost(u, id)
  \/ \E u \in VoteUsers, t \in VoteUsers : Disconnect(u, t)

SpecPosts == InitPosts /\ [][NextPosts]_vars

\* Threads written and deleted
NextThreads ==
  \/ \E u \in VoteUsers, vis \in Visibilities : CreatePost(u, vis, MaxPostId)
  \/ \E u \in VoteUsers, id \in PostIds : CreateReply(u, id, MaxPostId)
  \/ \E u \in VoteUsers, id \in PostIds : DeletePost(u, id)

SpecThreads == InitPosts /\ [][NextThreads]_vars

\* C26: after any sequence of create_reply (on a top-level post or on a
\* comment at any depth) and delete_post, the cached comment_count of every
\* top-level post is the number of existing posts whose root_post_id it is.
C26_CommentCountMatches ==
  \A p \in posts :
    p.reply_to_id = NoPost =>
      p.comment_count = Cardinality({q \in posts : q.root_post_id = p.id})

\* Public, or the viewer is logged in and is the author or connected to the
\* author
MayView(v, p) ==
  \/ p.visibility = "public"
  \/ v # NoUser /\ (v = p.author_id \/ IsConnected(v, p.author_id))

\* C25 as stated: can_view_post is MayView of the post itself, a post of
\* visibility connections is not viewed, replied to or voted on by a user who
\* is neither its author nor connected to its author, and a viewer without a
\* session is served public posts only.
C25_ViewByPostAuthor ==
  /\ \A v \in Viewers, p \in posts : CanViewPost(v, p) <=> MayView(v, p)
  /\ \A v \in VoteUsers, p \in posts :
       (p.visibility = "connections" /\ ~MayView(v, p))
         => /\ GetPostStatus(v, p.id) = FORBIDDEN
            /\ CreateReplyStatus(v, p.id) = FORBIDDEN
            /\ PostVoteStatus(v, p.id) = FORBIDDEN
  /\ \A p \in posts : GetPostStatus(NoUser, p.id) = OK <=> p.visibility = "public"

\* C25, amended: can_view_post is MayView of the post it is given, and the
\* handlers give it the thread's top-level post. A post or comment is viewed,
\* replied to and voted on only by users for whom MayView holds of the
\* thread's top-level post; once a pair disconnects neither can view, reply to
\* or vote on anything in the other's connections threads; and a viewer
\* without a session is served public threads only.
C25_ViewByThreadRoot ==
  /\ [](\A v \in Viewers, p \in posts : CanViewPost(v, p) <=> MayView(v, p))
  /\ [](\A v \in VoteUsers, p \in posts :
          ~MayView(v, RootPost(p))
            => /\ GetPostStatus(v, p.id) = FORBIDDEN
               /\ CreateReplyStatus(v, p.id) = FORBIDDEN
               /\ PostVoteStatus(v, p.id) # OK)
  /\ [][\A u \in VoteUsers, t \in VoteUsers, p \in posts :
          (/\ u # t /\ IsConnected(u, t) /\ Disconnect(u, t)
           /\ RootPost(p).visibility = "connections"
           /\ {RootPost(p).author_id} \subseteq {u, t})
            => \A v \in {u, t} \ {RootPost(p).author_id} :
                 /\ GetPostStatus(v, p.id)' = FORBIDDEN
                 /\ CreateReplyStatus(v, p.id)' = FORBIDDEN
                 /\ PostVoteStatus(v, p.id)' # OK]_vars
  /\ [][\A u \in VoteUsers, id \in PostIds :
          /\ (CreateReply(u, id, MaxVotedPostId) /\ posts' # posts)
               => MayView(u, RootPost(PostById(id)))
          /\ \A x \in PostVoteValues :
               (VoteOnPost(u, id, x) /\ postVotes' # postVotes)
                 => MayView(u, RootPost(PostById(id)))]_vars
  /\ [](\A p \in posts :
          GetPostStatus(NoUser, p.id) = OK <=> RootPost(p).visibility = "public")

\* C25 witness: a top-level connections post carries the vote of a user who
\* has since been disconnected from its author
C25_VotedThenDisconnected ==
  \E p \in posts, v \in postVotes :
    /\ p.reply_to_id = NoPost /\ p.visibility = "connections"
    /\ v.post_id = p.id /\ ~IsConnected(v.user_id, p.author_id)

\* ---------------------------------------------------------------------------
\* ratelimit.py: the in-process rate limiter. The clock is in minutes.
\* ---------------------------------------------------------------------------

\* window_seconds=60 of both endpoints
WINDOW == 1

\* now + 300: what a violation below the threshold stores as block_until
GRACE == 5

\* BLOCK_DURATION_SECONDS = 3600
BLOCK_DURATION == 60

VIOLATIONS_BEFORE_BLOCK == 3

\* max_requests of forgot_password and of signup
FORGOT_MAX == 3
SIGNUP_MAX == 5

MaxRequestsOf(e) == IF e = "forgot_password" THEN FORGOT_MAX ELSE SIGNUP_MAX

\* The instants requests arrive at: a window apart, and a grace period later
LimiterTimes ==
  {(i \div 2) * GRACE + (i % 2) * WINDOW : i \in 0..MaxLimiterInstant}

\* _blocked_ips after _is_ip_blocked looked at ip: an entry whose block_until
\* has passed is deleted
ExpiredDropped(ip) ==
  IF blockedIps[ip] # NotBlocked /\ clock > blockedIps[ip].until
  THEN [blockedIps EXCEPT ![ip] = NotBlocked]
  ELSE blockedIps

\* _is_ip_blocked
IsIpBlocked(ip) ==
  blockedIps[ip] # NotBlocked /\ ~(clock > blockedIps[ip].until)

\* _clean_old_requests
RECURSIVE CleanOldRequests(_)
CleanOldRequests(log) ==
  IF log = <<>> THEN <<>>
  ELSE IF Head(log) > clock - WINDOW
  THEN <<Head(log)>> \o CleanOldRequests(Tail(log))
  ELSE CleanOldRequests(Tail(log))

\* _record_violation on the store that _is_ip_blocked left
RecordViolation(store, ip) ==
  LET count == IF store[ip] # NotBlocked THEN store[ip].count + 1 ELSE 1
  IN  [store EXCEPT ![ip] =
         IF count >= VIOLATIONS_BEFORE_BLOCK
         THEN [until |-> clock + BLOCK_DURATION, count |-> count]
         ELSE [until |-> clock + GRACE, count |-> count]]

\* What the wrapper answers: 429 when blocked or when the endpoint's window is
\* full, else the endpoint is served
LimiterStatus(ip, e) ==
  IF IsIpBlocked(ip) THEN TOO_MANY_REQUESTS
  ELSE IF Len(CleanOldRequests(requestLog[<<e, ip>>])) >= MaxRequestsOf(e)
  THEN TOO_MANY_REQUESTS
  ELSE OK

\* One request from ip to endpoint e through the rate_limit wrapper
LimitedRequest(ip, e) ==
  /\ IF IsIpBlocked(ip)
     THEN UNCHANGED <<requestLog, blockedIps>>
     ELSE IF Len(CleanOldRequests(requestLog[<<e, ip>>])) >= MaxRequestsOf(e)
     THEN /\ blockedIps' = RecordViolation(ExpiredDropped(ip), ip)
          /\ requestLog' = [requestLog EXCEPT ![<<e, ip>>] = CleanOldRequests(@)]
     ELSE /\ blockedIps' = ExpiredDropped(ip)
          /\ requestLog' = [requestLog EXCEPT ![<<e, ip>>] =
                              Append(CleanOldRequests(@), clock)]
  /\ UNCHANGED <<clock, now, claimTables, inFlight, messageTable, readTables,
                 factTables, postTables>>

\* time.time() moves on between requests
ClockTick ==
  /\ \E t \in LimiterTimes : t > clock /\ clock' = t
  /\ UNCHANGED <<requestLog, blockedIps, now, claimTables, inFlight, messageTable,
                 readTables, factTables, postTables>>

NextLimiter ==
  \/ \E ip \in ClientIps, e \in Endpoints : LimitedRequest(ip, e)
  \/ ClockTick

\* Nothing in any table, the limiter's stores empty
InitLimiter == InitReads

SpecLimiter == InitLimiter /\ [][NextLimiter]_vars

\* C28: an IP is blocked (every rate-limited endpoint answers 429) only once
\* it has VIOLATIONS_BEFORE_BLOCK violations on record, and then for
\* BLOCK_DURATION; with fewer violations a request to an endpoint whose own
\* window is not full is served.
C28_BlockedOnlyAfterThreeViolations ==
  \A ip \in ClientIps :
    /\ IsIpBlocked(ip) => blockedIps[ip].count >= VIOLATIONS_BEFORE_BLOCK
    /\ blockedIps[ip].count < VIOLATIONS_BEFORE_BLOCK
         => \A e \in Endpoints :
              Len(CleanOldRequests(requestLog[<<e, ip>>])) < MaxRequestsOf(e)
                => LimiterStatus(ip, e) = OK

====
